---- MODULE Spec2Model ----
(***************************************************************************)
(* userfs: provisioning of a persistent data partition on a DOS (MBR)      *)
(* disk.  The model follows one boot-time invocation of the tool after     *)
(* another: main -> step1_create_userfs_partition (libfdisk session:       *)
(* read, delete / create, commit, deassign) -> partprobe -> step 2         *)
(* (probe, mkfs.btrfs, mount, subvolumes) -> step 3 (overlay mounts).      *)
(* The partition table on the device is the only state that survives an   *)
(* invocation.  libfdisk is modelled as a table codec: a working copy of   *)
(* the table loaded by fdisk_assign_device, changed by add / delete, and   *)
(* made durable by fdisk_write_disklabel; any call may fail.               *)
(***************************************************************************)
EXTENDS Integers, Sequences, FiniteSets, TLC

VARIABLES
    nsectors,     \* capacity of the device in sectors (fdisk_get_nsectors)
    table,        \* the partition table on the device (durable)
    ctab,         \* libfdisk's working copy of the table (struct fdisk_context)
    desired,      \* USERFS_PART_NO of this build
    fs,           \* the filesystem on the userfs partition device; "unseen"
                  \* as long as nothing has looked at it or formatted it
    boot,         \* number of the current invocation
    pc,           \* position of the process
    flags,        \* args->flags
    disk,         \* struct disk_info disk (the layout model)
    ctx,          \* struct fdisk_context *ctx: "null", "live" or "freed"
    assigned,     \* the device is assigned to ctx
    ret,          \* the ret variable of the function being executed
    loc,          \* locals that live across steps: old_size, old_type,
                  \* fs_info.type of the userfs slot, do_format_btrfs, sv, i
    ops,          \* the calls issued so far in this invocation, in order
    exit_status,  \* the result of the process, "running" until it ends
    mounted,      \* mount points in place: targets of successful mount(2)
    subvols,      \* btrfs subvolumes present on the userfs filesystem
    hist,         \* observations of this invocation used to state properties
    cmd           \* a command_run call that captures the child's output:
                  \* the parent's position, the child, and the pipe

vars == <<nsectors, table, ctab, desired, fs, boot, pc, flags, disk, ctx,
          assigned, ret, loc, ops, exit_status, mounted, subvols, hist, cmd>>

-----------------------------------------------------------------------------
(* Program constants *)

MAX_DOS_PARTITIONS == 4
MAX_SUPPORTED_PARTITIONS == 6
SECTOR_SIZE == 512
GB == 1073741824
USERFS_MIN_SIZE_S == GB \div SECTOR_SIZE
DOS_LOGICAL_VOLUME_HEADER_SIZE == 2048
PARTTYPE_CODE_FAT32_LBA == 12
PARTTYPE_CODE_LINUX == 131
PARTTYPE_CODE_EXTENDED == 5
USERFS_PART_CODE == PARTTYPE_CODE_LINUX

Slots == 0 .. (MAX_SUPPORTED_PARTITIONS - 1)

(* Bounds of the model *)
MaxBoots == 2

-----------------------------------------------------------------------------
(* 64-bit byte counts.  TLC's integers are 32 bits wide, a byte count of a  *)
(* disk is not: a uint64_t is kept as <<high, low>> in base 2^30.           *)

WideBase == GB

U64(n) == <<n \div WideBase, n % WideBase>>

\* (uint64_t)sectors * SECTOR_SIZE
MulSectorSize(s) ==
    <<s \div (WideBase \div SECTOR_SIZE), (s % (WideBase \div SECTOR_SIZE)) * SECTOR_SIZE>>

\* the value of a wide number that is known to fit TLC's integers
Narrow(w) == w[1] * WideBase + w[2]

-----------------------------------------------------------------------------
(* The table codec (libfdisk, DOS label) *)

FreeEntry == [used |-> FALSE, start |-> 0, size |-> 0, type |-> 0]

EmptyTable == [i \in Slots |-> FreeEntry]

EntryEnd(e) == e.start + e.size - 1

Overlap(a, b) == a.start <= EntryEnd(b) /\ b.start <= EntryEnd(a)

IsExtended(e) == e.used /\ e.type = PARTTYPE_CODE_EXTENDED

\* fdisk_is_partition_used
fdisk_is_partition_used(tab, n) == tab[n].used

\* fdisk_get_npartitions: 4 primary slots, more once logical partitions exist
fdisk_get_npartitions(tab) ==
    IF \E i \in Slots : i >= MAX_DOS_PARTITIONS /\ tab[i].used
    THEN 1 + CHOOSE i \in Slots : tab[i].used /\ \A j \in Slots : tab[j].used => j <= i
    ELSE MAX_DOS_PARTITIONS

\* What fdisk_add_partition accepts: a free slot, a non-empty range inside
\* the disk; a primary or extended entry clear of the other primary entries;
\* a logical entry inside the extended container, behind a header gap, clear
\* of the other logical entries.
CodecAccepts_OverlapAllowed(tab, total, n, e) ==
    /\ n \in Slots
    /\ ~tab[n].used
    /\ e.size >= 1
    /\ e.start >= 1
    /\ EntryEnd(e) <= total - 1
    /\ IF n < MAX_DOS_PARTITIONS
       THEN e.type = PARTTYPE_CODE_EXTENDED =>
                 \A i \in 0 .. (MAX_DOS_PARTITIONS - 1) : ~IsExtended(tab[i])
       ELSE /\ e.type # PARTTYPE_CODE_EXTENDED
            /\ \E x \in 0 .. (MAX_DOS_PARTITIONS - 1) : IsExtended(tab[x])
            /\ \A i \in MAX_DOS_PARTITIONS .. (n - 1) : tab[i].used

CodecAccepts(tab, total, n, e) ==
    /\ n \in Slots
    /\ ~tab[n].used
    /\ e.size >= 1
    /\ e.start >= 1
    /\ EntryEnd(e) <= total - 1
    /\ IF n < MAX_DOS_PARTITIONS
       THEN /\ \A i \in 0 .. (MAX_DOS_PARTITIONS - 1) :
                 (tab[i].used /\ i # n) => ~Overlap(tab[i], e)
            /\ e.type = PARTTYPE_CODE_EXTENDED =>
                 \A i \in 0 .. (MAX_DOS_PARTITIONS - 1) : ~IsExtended(tab[i])
       ELSE /\ e.type # PARTTYPE_CODE_EXTENDED
            /\ \E x \in 0 .. (MAX_DOS_PARTITIONS - 1) :
                 /\ IsExtended(tab[x])
                 /\ tab[x].start < e.start
                 /\ EntryEnd(e) <= EntryEnd(tab[x])
            /\ \A i \in MAX_DOS_PARTITIONS .. (MAX_SUPPORTED_PARTITIONS - 1) :
                 (tab[i].used /\ i # n) => ~Overlap(tab[i], e)
            /\ \A i \in MAX_DOS_PARTITIONS .. (n - 1) : tab[i].used

\* the table after fdisk_add_partition stored entry e under number n
CodecAdd(tab, n, e) ==
    [tab EXCEPT ![n] = [used |-> TRUE, start |-> e.start, size |-> e.size, type |-> e.type]]

\* the table after fdisk_delete_partition(n): deleting the extended
\* container drops its logical partitions, deleting a logical partition
\* renumbers the ones behind it
CodecDelete(tab, n) ==
    IF n < MAX_DOS_PARTITIONS
    THEN IF IsExtended(tab[n])
         THEN [i \in Slots |-> IF i = n \/ i >= MAX_DOS_PARTITIONS THEN FreeEntry ELSE tab[i]]
         ELSE [tab EXCEPT ![n] = FreeEntry]
    ELSE [i \in Slots |->
            IF i < n THEN tab[i]
            ELSE IF i + 1 \in Slots THEN tab[i + 1] ELSE FreeEntry]

-----------------------------------------------------------------------------
(* The layout model: struct part_info, struct disk_info *)

\* a struct part_info after memset(0)
ZeroPart == [start |-> 0, end |-> 0, size |-> 0, partno |-> 0, used |-> FALSE, type |-> 0]

\* disk_clear_info: memset(disk, 0, sizeof(*disk))
ZeroDisk ==
    [type |-> "none", total_sectors |-> 0, total_size |-> U64(0), partition_count |-> 0,
     partitions |-> [i \in Slots |-> ZeroPart], last_used_partno |-> 0,
     next_free_sector |-> U64(0), free_sectors |-> 0, free_size |-> U64(0)]

disk_clear_info_Kept(d) == d

disk_clear_info(d) == ZeroDisk

\* the first loop of disk_read_partitions, for slot indox
ReadSlot(p, tab, indox) ==
    IF fdisk_is_partition_used(tab, indox)
    THEN [start |-> tab[indox].start, end |-> EntryEnd(tab[indox]), size |-> tab[indox].size,
          partno |-> indox, used |-> TRUE, type |-> tab[indox].type]
    ELSE [p EXCEPT !.partno = indox, !.start = 0, !.end = 0, !.size = 0, !.used = FALSE]

\* the second loop of disk_read_partitions: the highest used slot, 0 if none
LastUsedPartno(parts) ==
    IF \E i \in Slots : parts[i].used
    THEN CHOOSE i \in Slots : parts[i].used /\ \A j \in Slots : parts[j].used => j <= i
    ELSE 0

\* disk_read_partitions(ctx, label, disk): d is the struct as it was before
\* the call.  free_sectors is an unsigned difference; no table of the model
\* has a partition that ends beyond the disk, so it never wraps.
disk_read_partitions_FromZero(d, tab, total) ==
    LET n     == fdisk_get_npartitions(tab)
        parts == [i \in Slots |-> ReadSlot(d.partitions[i], tab, i)]
        last  == LastUsedPartno(parts)
        next  == IF \E i \in Slots : parts[i].used THEN parts[last].end + 1 ELSE 0
    IN  [type |-> "dos",
         total_sectors |-> total,
         total_size |-> MulSectorSize(total),
         partition_count |-> IF n > MAX_SUPPORTED_PARTITIONS THEN MAX_SUPPORTED_PARTITIONS ELSE n,
         partitions |-> parts,
         last_used_partno |-> last,
         next_free_sector |-> U64(next),
         free_sectors |-> total - next,
         free_size |-> MulSectorSize(total - next)]

disk_read_partitions(d, tab, total) ==
    LET n     == fdisk_get_npartitions(tab)
        parts == [i \in Slots |-> ReadSlot(d.partitions[i], tab, i)]
        last  == LastUsedPartno(parts)
        next  == parts[last].end + 1
    IN  [type |-> "dos",
         total_sectors |-> total,
         total_size |-> MulSectorSize(total),
         partition_count |-> IF n > MAX_SUPPORTED_PARTITIONS THEN MAX_SUPPORTED_PARTITIONS ELSE n,
         partitions |-> parts,
         last_used_partno |-> last,
         next_free_sector |-> U64(next),
         free_sectors |-> total - next,
         free_size |-> MulSectorSize(total - next)]

-----------------------------------------------------------------------------
(* The disks an invocation may find *)

\* sectors of every partition that exists before the first invocation
PartSectors == 8192
\* first sector of the first partition
FirstStart == 2048
\* unallocated sectors of a gap between two partitions
GapSectors == 1000

\* unallocated sectors behind the physically last partition
FreeChoices ==
    {USERFS_MIN_SIZE_S - 1, USERFS_MIN_SIZE_S,
     USERFS_MIN_SIZE_S + 2 * DOS_LOGICAL_VOLUME_HEADER_SIZE - 1,
     USERFS_MIN_SIZE_S + 2 * DOS_LOGICAL_VOLUME_HEADER_SIZE}

\* the tables before the first invocation: the used primary slots in their
\* order on the disk, whether a gap lies before the last of them, and the
\* type of slot 3
LayoutChoices ==
    {[order |-> <<>>, gap |-> FALSE, type3 |-> PARTTYPE_CODE_LINUX],
     [order |-> <<0>>, gap |-> FALSE, type3 |-> PARTTYPE_CODE_LINUX],
     [order |-> <<0, 1>>, gap |-> FALSE, type3 |-> PARTTYPE_CODE_LINUX],
     [order |-> <<0, 1, 2>>, gap |-> FALSE, type3 |-> PARTTYPE_CODE_LINUX],
     [order |-> <<0, 2, 1>>, gap |-> FALSE, type3 |-> PARTTYPE_CODE_LINUX],
     [order |-> <<0, 1, 3>>, gap |-> FALSE, type3 |-> PARTTYPE_CODE_LINUX],
     [order |-> <<0, 1, 2, 3>>, gap |-> FALSE, type3 |-> PARTTYPE_CODE_LINUX],
     [order |-> <<0, 1, 3, 2>>, gap |-> FALSE, type3 |-> PARTTYPE_CODE_LINUX],
     [order |-> <<0, 1, 2, 3>>, gap |-> TRUE, type3 |-> PARTTYPE_CODE_LINUX],
     [order |-> <<0, 1, 2, 3>>, gap |-> FALSE, type3 |-> PARTTYPE_CODE_EXTENDED]}

\* first sector of the k-th partition on the disk; the gap, if any, lies
\* before the partition at position gapPos
StartAt(k, gapPos) ==
    FirstStart + (k - 1) * PartSectors + (IF gapPos # 0 /\ k >= gapPos THEN GapSectors ELSE 0)

Layout(order, gapPos, type3) ==
    [i \in Slots |->
        IF \E k \in 1 .. Len(order) : order[k] = i
        THEN LET k == CHOOSE k \in 1 .. Len(order) : order[k] = i
             IN  [used |-> TRUE, start |-> StartAt(k, gapPos), size |-> PartSectors,
                  type |-> IF i = 3 THEN type3
                           ELSE IF i = 0 THEN PARTTYPE_CODE_FAT32_LBA
                           ELSE PARTTYPE_CODE_LINUX]
        ELSE FreeEntry]

\* sectors of a disk that holds the layout and tail free sectors behind it
DiskSectors(order, gapPos, tail) ==
    IF Len(order) = 0 THEN FirstStart + tail
    ELSE StartAt(Len(order), gapPos) + PartSectors + tail

FsTypes == {"unknown", "btrfs", "ext4", "swap"}

NoHist ==
    [table0 |-> EmptyTable, disk0 |-> ZeroDisk, loaded |-> FALSE, was_assigned |-> FALSE,
     create |-> "none", path |-> "none", s1 |-> "none", codec_failed |-> FALSE,
     help |-> FALSE, prev_create |-> "none", mismatch_at |-> 0]

NoLocals ==
    [old_size |-> 0, old_type |-> 0, fs_type |-> "unknown", do_format_btrfs |-> FALSE,
     sv |-> 0, i |-> 0]

\* the process state at the start of an invocation: main's locals
\* no capturing command_run call is in progress: no caller of the program
\* passes a buffer
NoCommand ==
    [at |-> "none", buflen |-> 0, size |-> 0, out |-> 0, written |-> 0, pipe |-> 0,
     child |-> "none", rd_open |-> FALSE, ret |-> -1]

StartProcess ==
    /\ pc = "main_parse"
    /\ flags = {}
    /\ disk = ZeroDisk
    /\ ctx = "null"
    /\ assigned = FALSE
    /\ ret = -1
    /\ loc = NoLocals
    /\ ops = <<>>
    /\ exit_status = "running"
    /\ mounted = {"/var/volatile"}

\* a disk of twenty million sectors whose first three primary slots are
\* used, the third ending on sector 8,000,000
ScenarioSectors == 20 * 1000 * 1000

ScenarioTable ==
    [i \in Slots |->
       IF i = 0 THEN [used |-> TRUE, start |-> 2048, size |-> 1997953,
                      type |-> PARTTYPE_CODE_FAT32_LBA]
       ELSE IF i = 1 THEN [used |-> TRUE, start |-> 2000001, size |-> 3000000,
                           type |-> PARTTYPE_CODE_LINUX]
       ELSE IF i = 2 THEN [used |-> TRUE, start |-> 5000001, size |-> 3000000,
                           type |-> PARTTYPE_CODE_LINUX]
       ELSE FreeEntry]

Init ==
    /\ \/ \E l \in LayoutChoices, tail \in FreeChoices :
            LET gapPos == IF l.gap THEN Len(l.order) ELSE 0
            IN  /\ table = Layout(l.order, gapPos, l.type3)
                /\ nsectors = DiskSectors(l.order, gapPos, tail)
       \/ /\ table = ScenarioTable
          /\ nsectors = ScenarioSectors
    /\ desired \in Slots
    /\ fs = "unseen"
    /\ ctab = EmptyTable
    /\ boot = 1
    /\ subvols = {}
    /\ hist = [NoHist EXCEPT !.table0 = table]
    /\ cmd = NoCommand
    /\ StartProcess

-----------------------------------------------------------------------------
(* Helpers of the actions *)

Log(e) == ops' = Append(ops, e)

Note(h) == hist' = h

\* ASSERT and "goto exit" inside a function called by step 1 both hand a
\* non-zero ret to the caller
ERR == -1

DurableUnchanged == UNCHANGED <<cmd, nsectors, table, desired, fs, boot, subvols>>

\* disk_add_part(ctx, label, new): the outcomes of the call on working table
\* tab.  fdisk_new_partition, the type lookup or fdisk_add_partition fails
\* and the table is as before; or the partition is stored under the number
\* asked for; or it is stored under another number and the ASSERT on
\* cur_partno returns -1.
disk_add_part_MismatchAccepted(tab, total, new) ==
    LET e == [start |-> new.start, size |-> new.size, type |-> new.type]
    IN  {[ret |-> ERR, tab |-> tab, failed |-> TRUE, mismatch |-> FALSE]}
        \cup (IF CodecAccepts(tab, total, new.partno, e)
              THEN {[ret |-> 0, tab |-> CodecAdd(tab, new.partno, e), failed |-> FALSE,
                     mismatch |-> FALSE]}
              ELSE {})
        \cup {[ret |-> 0, tab |-> CodecAdd(tab, m, e), failed |-> TRUE, mismatch |-> TRUE] :
                m \in {n \in Slots \ {new.partno} : CodecAccepts(tab, total, n, e)}}

disk_add_part(tab, total, new) ==
    LET e == [start |-> new.start, size |-> new.size, type |-> new.type]
    IN  {[ret |-> ERR, tab |-> tab, failed |-> TRUE, mismatch |-> FALSE]}
        \cup (IF CodecAccepts(tab, total, new.partno, e)
              THEN {[ret |-> 0, tab |-> CodecAdd(tab, new.partno, e), failed |-> FALSE,
                     mismatch |-> FALSE]}
              ELSE {})
        \cup {[ret |-> ERR, tab |-> CodecAdd(tab, m, e), failed |-> TRUE, mismatch |-> TRUE] :
                m \in {n \in Slots \ {new.partno} : CodecAccepts(tab, total, n, e)}}

\* disk_delete_part / fdisk_delete_partition(ctx, partno)
disk_delete_part(tab, partno) ==
    {[ret |-> ERR, tab |-> tab, failed |-> TRUE]}
    \cup (IF tab[partno].used
          THEN {[ret |-> 0, tab |-> CodecDelete(tab, partno), failed |-> FALSE]}
          ELSE {})

\* disk_clear_info(disk); ret = disk_read_partitions(ctx, label, disk)
Reread(tab, total) == disk_read_partitions(disk_clear_info(disk), tab, total)

-----------------------------------------------------------------------------
(* main: parse_args *)

\* the option letters of getopt(argc, argv, "hdfvot") that set a flag
FlagNames == {"d", "f", "t", "o"}

\* the command lines of the model, as the option letters in their order
ArgvChoices ==
    {<<>>, <<"f">>, <<"t">>, <<"o">>, <<"f", "t">>, <<"f", "o">>, <<"t", "o">>,
     <<"f", "t", "o">>, <<"v", "t">>, <<"d">>, <<"d", "f">>,
     <<"h">>, <<"d", "h">>, <<"h", "d">>, <<"x">>, <<"d", "x">>}

\* parse_args: the getopt loop from option k on, with the flags set so far;
\* -h prints the usage and returns 0, an unknown option prints it and
\* returns -1, both without looking at the options behind
RECURSIVE parse_args(_, _, _)
parse_args(argv, k, fl) ==
    IF k > Len(argv) THEN [ret |-> 0, flags |-> fl, usage |-> FALSE, help |-> FALSE]
    ELSE IF argv[k] = "h" THEN [ret |-> 0, flags |-> fl, usage |-> TRUE, help |-> TRUE]
    ELSE IF argv[k] \in FlagNames THEN parse_args(argv, k + 1, fl \cup {argv[k]})
    ELSE IF argv[k] = "v" THEN parse_args(argv, k + 1, fl)
    ELSE [ret |-> ERR, flags |-> fl, usage |-> TRUE, help |-> FALSE]

\* main: ret = parse_args(argc, argv, &args); a non-zero ret ends the run
ParseArgs ==
    /\ pc = "main_parse"
    /\ \E argv \in ArgvChoices :
         LET r == parse_args(argv, 1, {})
         IN  /\ flags' = r.flags
             /\ Note([hist EXCEPT !.help = r.help])
             /\ ops' = IF r.usage THEN Append(ops, "usage") ELSE ops
             /\ ret' = r.ret
             /\ IF r.ret # 0
                THEN pc' = "done" /\ exit_status' = r.ret
                ELSE pc' = "s1_new_context" /\ exit_status' = exit_status
    /\ UNCHANGED <<ctab, disk, ctx, assigned, loc, mounted>>
    /\ DurableUnchanged

-----------------------------------------------------------------------------
(* step1_create_userfs_partition *)

\* int ret = -1; ctx = fdisk_new_context()
S1NewContext ==
    /\ pc = "s1_new_context"
    /\ \E ok \in BOOLEAN :
         IF ok THEN ctx' = "live" /\ pc' = "s1_assign"
               ELSE ctx' = ctx /\ pc' = "s1_exit"
    /\ ret' = ERR
    /\ UNCHANGED <<ctab, flags, disk, assigned, loc, ops, exit_status, mounted, hist>>
    /\ DurableUnchanged

\* fdisk_assign_device(ctx, DISK, RO_ENABLED)
S1AssignDevice ==
    /\ pc = "s1_assign"
    /\ \E ok \in BOOLEAN :
         IF ok
         THEN /\ assigned' = TRUE
              /\ ctab' = table
              /\ Note([hist EXCEPT !.was_assigned = TRUE])
              /\ pc' = "s1_get_label"
         ELSE /\ UNCHANGED <<assigned, ctab, hist>>
              /\ pc' = "s1_exit"
    /\ Log("assign")
    /\ UNCHANGED <<flags, disk, ctx, ret, loc, exit_status, mounted>>
    /\ DurableUnchanged

\* label = fdisk_get_label(ctx, "dos"); disk->type = fdisk_label_get_type(label)
S1GetLabel ==
    /\ pc = "s1_get_label"
    /\ \E got \in {"null", "dos", "other"} :
         /\ disk' = IF got = "null" THEN disk ELSE [disk EXCEPT !.type = got]
         /\ pc' = IF got = "dos" THEN "s1_read" ELSE "s1_exit"
    /\ UNCHANGED <<ctab, flags, ctx, assigned, ret, loc, ops, exit_status, mounted, hist>>
    /\ DurableUnchanged

\* ret = disk_read_partitions(ctx, label, disk)
S1ReadPartitions ==
    /\ pc = "s1_read"
    /\ disk' = disk_read_partitions(disk, ctab, nsectors)
    /\ ret' = 0
    /\ pc' = "s1_get_size"
    /\ Log("read")
    /\ Note([hist EXCEPT !.loaded = TRUE])
    /\ UNCHANGED <<ctab, flags, ctx, assigned, loc, exit_status, mounted>>
    /\ DurableUnchanged

\* the byte counts BLKGETSIZE64 may report: the size libfdisk computed, or
\* the size of a device whose sectors are not SECTOR_SIZE bytes
DeviceSizes == {MulSectorSize(nsectors), MulSectorSize(8 * nsectors)}

\* disk_get_size(DISK, &device_size), the ASSERT on it, and the branch on
\* FLAG_USERFS_DELETE.  A failed disk_get_size leaves through "exit" with the
\* ret of the read; a failed ASSERT returns from step 1 at once.
S1GetSize ==
    /\ pc = "s1_get_size"
    /\ \/ /\ pc' = "s1_exit"
          /\ ret' = ret
       \/ \E device_size \in DeviceSizes :
            IF device_size # disk.total_size
            THEN pc' = "s1_return" /\ ret' = ERR
            ELSE /\ pc' = IF "d" \in flags THEN "del_entry" ELSE "create_entry"
                 /\ ret' = ret
    /\ Note([hist EXCEPT !.s1 = IF pc' = "s1_return" THEN "error" ELSE @,
                         !.codec_failed = @ \/ pc' \in {"s1_exit", "s1_return"}])
    /\ UNCHANGED <<ctab, flags, disk, ctx, assigned, loc, ops, exit_status, mounted>>
    /\ DurableUnchanged

-----------------------------------------------------------------------------
(* disk_delete_userfs_partition and the delete branch of step 1 *)

\* disk_delete_userfs_partition up to fdisk_delete_partition
DeleteUserfs_NoUsedCheck ==
    /\ pc = "del_entry"
    /\ LET pinfo == disk.partitions[desired]
       IN  \E r \in disk_delete_part(ctab, desired) :
             /\ ctab' = r.tab
             /\ Log("delete")
             /\ ret' = IF r.ret = 0 THEN 0 ELSE ERR
             /\ pc' = IF r.ret = 0 THEN "del_write" ELSE "s1_exit"
             /\ Note([hist EXCEPT !.codec_failed = @ \/ r.failed])
    /\ UNCHANGED <<flags, disk, ctx, assigned, loc, exit_status, mounted>>
    /\ DurableUnchanged

DeleteUserfs_NotFound ==
    /\ pc = "del_entry"
    /\ LET pinfo == disk.partitions[desired]
       IN  IF ~pinfo.used
           THEN /\ ret' = ERR
                /\ pc' = "s1_exit"
                /\ UNCHANGED <<ctab, ops, hist>>
           ELSE \E r \in disk_delete_part(ctab, pinfo.partno) :
                  /\ ctab' = r.tab
                  /\ Log("delete")
                  /\ ret' = IF r.ret = 0 THEN 0 ELSE ERR
                  /\ pc' = IF r.ret = 0 THEN "del_write" ELSE "s1_exit"
                  /\ Note([hist EXCEPT !.codec_failed = @ \/ r.failed])
    /\ UNCHANGED <<flags, disk, ctx, assigned, loc, exit_status, mounted>>
    /\ DurableUnchanged

DeleteUserfs ==
    /\ pc = "del_entry"
    /\ LET pinfo == disk.partitions[desired]
       IN  IF ~pinfo.used
           THEN /\ ret' = 0
                /\ pc' = "del_deassign"
                /\ UNCHANGED <<ctab, ops, hist>>
           ELSE \E r \in disk_delete_part(ctab, pinfo.partno) :
                  /\ ctab' = r.tab
                  /\ Log("delete")
                  /\ ret' = IF r.ret = 0 THEN 0 ELSE ERR
                  /\ pc' = IF r.ret = 0 THEN "del_write" ELSE "s1_exit"
                  /\ Note([hist EXCEPT !.codec_failed = @ \/ r.failed])
    /\ UNCHANGED <<flags, disk, ctx, assigned, loc, exit_status, mounted>>
    /\ DurableUnchanged

\* fdisk_write_disklabel and memset(pinfo) in disk_delete_userfs_partition
DeleteWrite_NoMemset ==
    /\ pc = "del_write"
    /\ Log("commit")
    /\ \E ok \in BOOLEAN :
         IF ok
         THEN /\ table' = ctab
              /\ disk' = disk
              /\ ret' = 0
              /\ pc' = "del_deassign"
              /\ hist' = hist
         ELSE /\ UNCHANGED <<table, disk>>
              /\ ret' = ERR
              /\ pc' = "s1_exit"
              /\ Note([hist EXCEPT !.codec_failed = TRUE])
    /\ UNCHANGED <<cmd, nsectors, desired, fs, boot, subvols>>
    /\ UNCHANGED <<ctab, flags, ctx, assigned, loc, exit_status, mounted>>

DeleteWrite ==
    /\ pc = "del_write"
    /\ Log("commit")
    /\ \E ok \in BOOLEAN :
         IF ok
         THEN /\ table' = ctab
              /\ disk' = [disk EXCEPT !.partitions[desired] = ZeroPart]
              /\ ret' = 0
              /\ pc' = "del_deassign"
              /\ hist' = hist
         ELSE /\ UNCHANGED <<table, disk>>
              /\ ret' = ERR
              /\ pc' = "s1_exit"
              /\ Note([hist EXCEPT !.codec_failed = TRUE])
    /\ UNCHANGED <<cmd, nsectors, desired, fs, boot, subvols>>
    /\ UNCHANGED <<ctab, flags, ctx, assigned, loc, exit_status, mounted>>

\* fdisk_deassign_device, fdisk_unref_context and exit(EXIT_SUCCESS) after
\* the deletion
DeleteDeassign_Returns ==
    /\ pc = "del_deassign"
    /\ Log("deassign")
    /\ \E ok \in BOOLEAN :
         IF ok
         THEN /\ assigned' = FALSE
              /\ ctx' = "freed"
              /\ pc' = "s1_return"
              /\ ret' = 0
              /\ Note([hist EXCEPT !.s1 = "ok"])
         ELSE /\ UNCHANGED <<assigned, ctx>>
              /\ ret' = ERR
              /\ pc' = "s1_exit"
              /\ Note([hist EXCEPT !.codec_failed = TRUE])
    /\ UNCHANGED <<ctab, flags, disk, loc, exit_status, mounted>>
    /\ DurableUnchanged

DeleteDeassign ==
    /\ pc = "del_deassign"
    /\ Log("deassign")
    /\ \E ok \in BOOLEAN :
         IF ok
         THEN /\ assigned' = FALSE
              /\ ctx' = "freed"
              /\ exit_status' = 0
              /\ pc' = "done"
              /\ ret' = 0
              /\ Note([hist EXCEPT !.s1 = "exit"])
         ELSE /\ UNCHANGED <<assigned, ctx, exit_status>>
              /\ ret' = ERR
              /\ pc' = "s1_exit"
              /\ Note([hist EXCEPT !.codec_failed = TRUE])
    /\ UNCHANGED <<ctab, flags, disk, loc, mounted>>
    /\ DurableUnchanged

-----------------------------------------------------------------------------
(* disk_dos_create_userfs_partition *)

\* if (disk->free_sectors < USERFS_MIN_SIZE_S)
InsufficientSpace_Inclusive(d) == d.free_sectors <= USERFS_MIN_SIZE_S

InsufficientSpace(d) == d.free_sectors < USERFS_MIN_SIZE_S

\* The function up to the choice of the primary or the extended path, for
\* desired_partno n: the value it returns at once, or the path it enters
\* with ret still -1.
CreateDispatch_NoUsedCheck(d, n) ==
    IF n < 1 THEN [ret |-> ERR, pc |-> "s1_after_create"]
    ELSE IF InsufficientSpace(d) THEN [ret |-> ERR, pc |-> "s1_after_create"]
    ELSE IF n <= 3 THEN [ret |-> ERR, pc |-> "prim_add"]
    ELSE IF n = 5 THEN [ret |-> ERR, pc |-> "ext_delete"]
    ELSE [ret |-> ERR, pc |-> "s1_after_create"]

CreateDispatch(d, n) ==
    IF n < 1 THEN [ret |-> ERR, pc |-> "s1_after_create"]
    ELSE IF d.partitions[n].used THEN [ret |-> 1, pc |-> "s1_after_create"]
    ELSE IF InsufficientSpace(d) THEN [ret |-> ERR, pc |-> "s1_after_create"]
    ELSE IF n <= 3 THEN [ret |-> ERR, pc |-> "prim_add"]
    ELSE IF n = 5 THEN [ret |-> ERR, pc |-> "ext_delete"]
    ELSE [ret |-> ERR, pc |-> "s1_after_create"]

CreateEntry ==
    /\ pc = "create_entry"
    /\ ret' = CreateDispatch(disk, desired).ret
    /\ pc' = CreateDispatch(disk, desired).pc
    /\ Note([hist EXCEPT !.disk0 = disk])
    /\ UNCHANGED <<ctab, flags, disk, ctx, assigned, loc, ops, exit_status, mounted>>
    /\ DurableUnchanged

\* the slot disk_dos_add_userfs_as_new_primary_partition fills
NewPrimaryIndex(d) == d.last_used_partno + 1

\* the entry disk_dos_add_userfs_as_new_primary_partition writes into it
NewPrimary_OneSectorLater(d) ==
    [d.partitions[NewPrimaryIndex(d)] EXCEPT
        !.start = Narrow(d.next_free_sector) + 1,
        !.end   = d.total_sectors - 1,
        !.size  = d.free_sectors - 1,
        !.used  = TRUE,
        !.type  = USERFS_PART_CODE]

NewPrimary(d) ==
    [d.partitions[NewPrimaryIndex(d)] EXCEPT
        !.start = Narrow(d.next_free_sector),
        !.end   = d.total_sectors - 1,
        !.size  = d.free_sectors,
        !.used  = TRUE,
        !.type  = USERFS_PART_CODE]

\* disk_dos_add_userfs_as_new_primary_partition up to the re-read
PrimAdd ==
    /\ pc = "prim_add"
    /\ IF ~(disk.type = "dos" /\ disk.last_used_partno < 3)
       THEN /\ ret' = ERR
            /\ pc' = "s1_after_create"
            /\ UNCHANGED <<ctab, disk, ops>>
            /\ Note([hist EXCEPT !.path = "primary"])
       ELSE LET prev == disk.partitions[disk.last_used_partno]
                new  == NewPrimary(disk)
                d1   == [disk EXCEPT !.partitions[NewPrimaryIndex(disk)] = new]
            IN  IF ~(prev.end + 1 = new.start /\ new.end - new.start + 1 = new.size)
                THEN /\ ret' = ERR
                     /\ pc' = "s1_after_create"
                     /\ disk' = d1
                     /\ UNCHANGED <<ctab, ops>>
                     /\ Note([hist EXCEPT !.path = "primary"])
                ELSE \E r \in disk_add_part(ctab, nsectors, new) :
                       /\ ctab' = r.tab
                       /\ ret' = r.ret
                       /\ Note([hist EXCEPT !.path = "primary",
                                            !.codec_failed = @ \/ r.failed,
                                            !.mismatch_at =
                                                IF r.mismatch THEN Len(ops) + 1 ELSE @])
                       /\ IF r.ret # 0
                          THEN /\ disk' = d1
                               /\ Log("add")
                               /\ pc' = "s1_after_create"
                          ELSE /\ disk' = Reread(r.tab, nsectors)
                               /\ ops' = ops \o <<"add", "read">>
                               /\ pc' = "prim_write"
    /\ UNCHANGED <<flags, ctx, assigned, loc, exit_status, mounted>>
    /\ DurableUnchanged

\* fdisk_write_disklabel at the end of
\* disk_dos_add_userfs_as_new_primary_partition
PrimWrite ==
    /\ pc = "prim_write"
    /\ Log("commit")
    /\ \E ok \in BOOLEAN :
         IF ok
         THEN /\ table' = ctab
              /\ ret' = 0
              /\ pc' = "create_write"
              /\ hist' = hist
         ELSE /\ table' = table
              /\ ret' = ERR
              /\ pc' = "s1_after_create"
              /\ Note([hist EXCEPT !.codec_failed = TRUE])
    /\ UNCHANGED <<cmd, nsectors, desired, fs, boot, subvols>>
    /\ UNCHANGED <<ctab, flags, disk, ctx, assigned, loc, exit_status, mounted>>

-----------------------------------------------------------------------------
(* disk_dos_extend_partition_add_userfs *)

\* the four ASSERTs at the head of the function
ExtendPreconditions(d) ==
    /\ d.type = "dos"
    /\ d.partition_count = MAX_DOS_PARTITIONS
    /\ d.last_used_partno = 3
    /\ d.partitions[3].type # PARTTYPE_CODE_EXTENDED

\* "Tell there is no space left": the three assignments that end the
\* conversion
NoSpaceLeft(d) ==
    [d EXCEPT !.next_free_sector = d.total_size,
              !.free_sectors = 0,
              !.free_size = U64(0)]

\* One add of the conversion: entry e is written into slot n of the layout
\* model and handed to disk_add_part; on success the table is read again.
ExtAddStep_NoReread(n, e) ==
    LET d1 == [disk EXCEPT !.partitions[n] = e]
    IN  \E r \in disk_add_part(ctab, nsectors, e) :
          /\ ctab' = r.tab
          /\ ret' = r.ret
          /\ Note([hist EXCEPT !.codec_failed = @ \/ r.failed,
                               !.mismatch_at = IF r.mismatch THEN Len(ops) + 1 ELSE @])
          /\ disk' = IF n = 5 /\ r.ret = 0 THEN NoSpaceLeft(d1) ELSE d1
          /\ Log("add")
          /\ pc' = IF r.ret # 0 THEN "s1_after_create"
                   ELSE IF n = 3 THEN "ext_add_moved"
                   ELSE IF n = 4 THEN "ext_add_new"
                   ELSE "create_write"

ExtAddStep(n, e) ==
    LET d1 == [disk EXCEPT !.partitions[n] = e]
    IN  \E r \in disk_add_part(ctab, nsectors, e) :
          /\ ctab' = r.tab
          /\ ret' = r.ret
          /\ Note([hist EXCEPT !.codec_failed = @ \/ r.failed,
                               !.mismatch_at = IF r.mismatch THEN Len(ops) + 1 ELSE @])
          /\ IF r.ret # 0
             THEN /\ disk' = d1
                  /\ Log("add")
                  /\ pc' = "s1_after_create"
             ELSE /\ disk' = IF n = 5 THEN NoSpaceLeft(Reread(r.tab, nsectors))
                                       ELSE Reread(r.tab, nsectors)
                  /\ ops' = ops \o <<"add", "read">>
                  /\ pc' = IF n = 3 THEN "ext_add_moved"
                           ELSE IF n = 4 THEN "ext_add_new"
                           ELSE "create_write"

\* the ASSERTs, the save of the old slot 3 and its deletion
ExtDelete ==
    /\ pc = "ext_delete"
    /\ IF ~ExtendPreconditions(disk)
       THEN /\ ret' = ERR
            /\ pc' = "s1_after_create"
            /\ UNCHANGED <<ctab, disk, loc, ops>>
            /\ Note([hist EXCEPT !.path = "extended"])
       ELSE LET o == disk.partitions[3]
            IN  /\ loc' = [loc EXCEPT !.old_size = o.size, !.old_type = o.type]
                /\ \E r \in disk_delete_part(ctab, o.partno) :
                     /\ ctab' = r.tab
                     /\ ret' = r.ret
                     /\ Note([hist EXCEPT !.path = "extended",
                                          !.codec_failed = @ \/ r.failed])
                     /\ IF r.ret # 0
                        THEN /\ disk' = disk
                             /\ Log("delete")
                             /\ pc' = "s1_after_create"
                        ELSE /\ disk' = Reread(r.tab, nsectors)
                             /\ ops' = ops \o <<"delete", "read">>
                             /\ pc' = "ext_add_ext"
    /\ UNCHANGED <<flags, ctx, assigned, exit_status, mounted>>
    /\ DurableUnchanged

\* the extended container: from the next free sector to the end of the disk
ExtEntry(d) ==
    [d.partitions[3] EXCEPT
        !.partno = 3,
        !.used   = TRUE,
        !.start  = Narrow(d.next_free_sector),
        !.end    = d.total_sectors - 1,
        !.size   = d.free_sectors,
        !.type   = PARTTYPE_CODE_EXTENDED]

ExtAddExt ==
    /\ pc = "ext_add_ext"
    /\ ExtAddStep(3, ExtEntry(disk))
    /\ UNCHANGED <<flags, ctx, assigned, loc, exit_status, mounted>>
    /\ DurableUnchanged

\* the old slot 3 as the first logical partition
MovedEntry_Shrunk(d, l) ==
    LET ext == d.partitions[3]
    IN  [d.partitions[4] EXCEPT
            !.partno = 4,
            !.used   = TRUE,
            !.start  = ext.start + DOS_LOGICAL_VOLUME_HEADER_SIZE,
            !.end    = ext.start + DOS_LOGICAL_VOLUME_HEADER_SIZE + l.old_size - 2,
            !.size   = l.old_size - 1,
            !.type   = l.old_type]

MovedEntry(d, l) ==
    LET ext == d.partitions[3]
    IN  [d.partitions[4] EXCEPT
            !.partno = 4,
            !.used   = TRUE,
            !.start  = ext.start + DOS_LOGICAL_VOLUME_HEADER_SIZE,
            !.end    = ext.start + DOS_LOGICAL_VOLUME_HEADER_SIZE + l.old_size - 1,
            !.size   = l.old_size,
            !.type   = l.old_type]

ExtAddMoved ==
    /\ pc = "ext_add_moved"
    /\ ExtAddStep(4, MovedEntry(disk, loc))
    /\ UNCHANGED <<flags, ctx, assigned, loc, exit_status, mounted>>
    /\ DurableUnchanged

\* the userfs partition as the second logical partition.  new->size is an
\* unsigned difference; the container is wider than the relocated partition
\* and the two headers whenever the free-space check passed, so it does not
\* wrap.
NewLogicalEntry_NoHeader(d) ==
    LET ext   == d.partitions[3]
        moved == d.partitions[4]
        start == moved.end + 1
    IN  [d.partitions[5] EXCEPT
            !.partno = 5,
            !.used   = TRUE,
            !.start  = start,
            !.end    = ext.end,
            !.size   = ext.end - start + 1,
            !.type   = USERFS_PART_CODE]

NewLogicalEntry(d) ==
    LET ext   == d.partitions[3]
        moved == d.partitions[4]
        start == moved.end + DOS_LOGICAL_VOLUME_HEADER_SIZE + 1
    IN  [d.partitions[5] EXCEPT
            !.partno = 5,
            !.used   = TRUE,
            !.start  = start,
            !.end    = ext.end,
            !.size   = ext.end - start + 1,
            !.type   = USERFS_PART_CODE]

ExtAddNew ==
    /\ pc = "ext_add_new"
    /\ ExtAddStep(5, NewLogicalEntry(disk))
    /\ UNCHANGED <<flags, ctx, assigned, loc, exit_status, mounted>>
    /\ DurableUnchanged

\* fdisk_write_disklabel at the end of disk_dos_create_userfs_partition
CreateWrite ==
    /\ pc = "create_write"
    /\ Log("commit")
    /\ \E ok \in BOOLEAN :
         IF ok
         THEN /\ table' = ctab
              /\ ret' = 0
              /\ hist' = hist
         ELSE /\ table' = table
              /\ ret' = ERR
              /\ Note([hist EXCEPT !.codec_failed = TRUE])
    /\ pc' = "s1_after_create"
    /\ UNCHANGED <<cmd, nsectors, desired, fs, boot, subvols>>
    /\ UNCHANGED <<ctab, flags, disk, ctx, assigned, loc, exit_status, mounted>>

-----------------------------------------------------------------------------
(* step1_create_userfs_partition: after the create, and the ways out *)

CreateResult(r) == IF r = 0 THEN "created" ELSE IF r = 1 THEN "exists" ELSE "error"

\* the branch on the result of disk_dos_create_userfs_partition
S1AfterCreate ==
    /\ pc = "s1_after_create"
    /\ flags' = IF ret = 0 /\ "t" \notin flags THEN flags \cup {"f"} ELSE flags
    /\ pc' = IF ret = 0 \/ ret = 1 THEN "s1_deassign" ELSE "s1_exit"
    /\ Note([hist EXCEPT !.create = CreateResult(ret)])
    /\ UNCHANGED <<ctab, disk, ctx, assigned, ret, loc, ops, exit_status, mounted>>
    /\ DurableUnchanged

\* "Do sync": fdisk_deassign_device, fdisk_unref_context, return 0
S1Deassign ==
    /\ pc = "s1_deassign"
    /\ Log("deassign")
    /\ \E ok \in BOOLEAN :
         IF ok
         THEN /\ assigned' = FALSE
              /\ ctx' = "freed"
              /\ ret' = 0
              /\ pc' = "s1_return"
              /\ Note([hist EXCEPT !.s1 = "ok"])
         ELSE /\ UNCHANGED <<assigned, ctx>>
              /\ ret' = ERR
              /\ pc' = "s1_exit"
              /\ Note([hist EXCEPT !.codec_failed = TRUE])
    /\ UNCHANGED <<ctab, flags, disk, loc, exit_status, mounted>>
    /\ DurableUnchanged

\* the exit label: disk_clear_info(disk); if (ctx) fdisk_unref_context(ctx);
\* return ret.  The device is not deassigned here.
S1Exit ==
    /\ pc = "s1_exit"
    /\ disk' = disk_clear_info(disk)
    /\ IF ctx = "live" THEN ctx' = "freed" /\ Log("unref")
                       ELSE ctx' = ctx /\ ops' = ops
    /\ pc' = "s1_return"
    /\ Note([hist EXCEPT !.s1 = "error"])
    /\ UNCHANGED <<ctab, flags, assigned, ret, loc, exit_status, mounted>>
    /\ DurableUnchanged

-----------------------------------------------------------------------------
(* main after step 1, external commands *)

\* disk_free_info(&disk) of main.c
disk_free_info(d) == [d EXCEPT !.partition_count = 0, !.total_sectors = 0]

Pids == {1000}

\* command_run(NULL, NULL, program, argv): fork fails and -1 is returned; or
\* the child runs and waitpid returns its pid whatever its exit status was
\* (status 0: the program did its work); or waitpid fails after the child ran
command_run ==
    {[ret |-> ERR, ran |-> FALSE, status |-> 1]}
    \cup {[ret |-> pid, ran |-> TRUE, status |-> st] : pid \in Pids, st \in {0, 1}}
    \cup {[ret |-> ERR, ran |-> TRUE, status |-> 0]}

\* create_directory(dir): 0 if the directory exists or could be made
create_directory(parent_exists) == IF parent_exists THEN {0, ERR} ELSE {ERR}

\* main leaves with ret: "goto exit", or a return after a failed ASSERT
MainExit(r) ==
    /\ pc' = "done"
    /\ exit_status' = r
    /\ ret' = r

\* main: the check of step 1's result and the two ASSERTs on the userfs slot
MainAfterStep1 ==
    /\ pc = "s1_return"
    /\ LET userfs_part == disk.partitions[desired]
       IN  IF ret # 0
           THEN MainExit(ret) /\ disk' = disk_free_info(disk)
           ELSE IF ~(userfs_part.used /\ userfs_part.partno = desired)
           THEN MainExit(ERR) /\ disk' = disk
           ELSE /\ pc' = "main_partprobe"
                /\ UNCHANGED <<exit_status, ret, disk>>
    /\ UNCHANGED <<ctab, flags, ctx, assigned, loc, ops, mounted, hist>>
    /\ DurableUnchanged

\* ret = disk_partprobe(DISK)
MainPartprobe ==
    /\ pc = "main_partprobe"
    /\ Log("partprobe")
    /\ \E r \in command_run :
         IF r.ret < 0
         THEN MainExit(r.ret) /\ disk' = disk_free_info(disk)
         ELSE /\ pc' = "s2_probe"
              /\ ret' = r.ret
              /\ UNCHANGED <<exit_status, disk>>
    /\ UNCHANGED <<ctab, flags, ctx, assigned, loc, mounted, hist>>
    /\ DurableUnchanged

-----------------------------------------------------------------------------
(* step2_create_btrfs_filesystem *)

USERFS_MOUNT_POINT == "/mnt/userfs"

btrfs_subvolumes == <<"vol-data", "vol-config">>

\* the switch on fs_info.type after the force flag was looked at
DoFormatBtrfs_TrustWins(fl, type) ==
    ("f" \in fl /\ "t" \notin fl) \/ type \notin {"btrfs", "ext4"}

DoFormatBtrfs(fl, type) == ("f" \in fl) \/ type \notin {"btrfs", "ext4"}

\* fs_probe(part_device, info): the call fails, or info->type is what
\* blkid finds on the device: "btrfs", "ext4", "swap", or FS_TYPE_UNKNOWN
\* for anything else and for a blank device
fs_probe(found) ==
    {[ret |-> ERR, type |-> "unknown", fs |-> found]}
    \cup {[ret |-> 0, type |-> t, fs |-> t] :
            t \in (IF found = "unseen" THEN FsTypes ELSE {found})}

\* the ASSERTs, fs_probe and the decision to format
S2Probe ==
    /\ pc = "s2_probe"
    /\ LET userfs_part == disk.partitions[desired]
       IN  IF ~(userfs_part.used /\ userfs_part.partno = desired)
           THEN /\ MainExit(ERR)
                /\ disk' = disk_free_info(disk)
                /\ UNCHANGED <<ops, loc, fs>>
           ELSE /\ Log("probe")
                /\ \E r \in fs_probe(fs) :
                     /\ fs' = r.fs
                     /\ IF r.ret # 0
                        THEN MainExit(r.ret) /\ disk' = disk_free_info(disk) /\ loc' = loc
                        ELSE /\ loc' = [loc EXCEPT
                                          !.fs_type = r.type,
                                          !.do_format_btrfs = DoFormatBtrfs(flags, r.type)]
                             /\ pc' = IF DoFormatBtrfs(flags, r.type)
                                      THEN "s2_mkfs" ELSE "s2_mount"
                             /\ ret' = 0
                             /\ UNCHANGED <<exit_status, disk>>
    /\ UNCHANGED <<cmd, nsectors, table, desired, boot, subvols>>
    /\ UNCHANGED <<ctab, flags, ctx, assigned, mounted, hist>>

\* mkfs.btrfs -f and create_directory(USERFS_MOUNT_POINT)
S2Mkfs ==
    /\ pc = "s2_mkfs"
    /\ \E r \in command_run :
         /\ fs' = IF r.ran /\ r.status = 0 THEN "btrfs" ELSE fs
         /\ subvols' = IF r.ran /\ r.status = 0 THEN {} ELSE subvols
         /\ hist' = hist
         /\ IF r.ret < 0
            THEN MainExit(r.ret) /\ disk' = disk_free_info(disk) /\ Log("mkfs")
            ELSE \E m \in create_directory(TRUE) :
                   /\ ops' = ops \o <<"mkfs", "mkdir">>
                   /\ IF m # 0
                      THEN MainExit(m) /\ disk' = disk_free_info(disk)
                      ELSE /\ pc' = "s2_mount"
                           /\ ret' = m
                           /\ UNCHANGED <<exit_status, disk>>
    /\ UNCHANGED <<cmd, nsectors, table, desired, boot>>
    /\ UNCHANGED <<ctab, flags, ctx, assigned, loc, mounted>>

\* mount(userfs_part_device, USERFS_MOUNT_POINT, "btrfs", 0, NULL)
S2Mount_AlwaysSubvolumes ==
    /\ pc = "s2_mount"
    /\ Log("mount")
    /\ \E ok \in (IF fs = "btrfs" THEN BOOLEAN ELSE {FALSE}) :
         IF ~ok
         THEN MainExit(ERR) /\ disk' = disk_free_info(disk) /\ UNCHANGED <<mounted, loc>>
         ELSE /\ mounted' = mounted \cup {USERFS_MOUNT_POINT}
              /\ UNCHANGED <<exit_status, disk>>
              /\ ret' = 0
              /\ loc' = [loc EXCEPT !.sv = 0]
              /\ pc' = "s2_subvolume"
    /\ UNCHANGED <<ctab, flags, ctx, assigned, hist>>
    /\ DurableUnchanged

S2Mount ==
    /\ pc = "s2_mount"
    /\ Log("mount")
    /\ \E ok \in (IF fs = "btrfs" THEN BOOLEAN ELSE {FALSE}) :
         IF ~ok
         THEN MainExit(ERR) /\ disk' = disk_free_info(disk) /\ UNCHANGED <<mounted, loc>>
         ELSE /\ mounted' = mounted \cup {USERFS_MOUNT_POINT}
              /\ UNCHANGED <<exit_status, disk>>
              /\ ret' = 0
              /\ loc' = [loc EXCEPT !.sv = 0]
              /\ pc' = IF loc.do_format_btrfs THEN "s2_subvolume" ELSE "main_after_step2"
    /\ UNCHANGED <<ctab, flags, ctx, assigned, hist>>
    /\ DurableUnchanged

\* one turn of the loop that runs "btrfs subvolume create"
S2Subvolume ==
    /\ pc = "s2_subvolume"
    /\ Log("subvolume")
    /\ \E r \in command_run :
         /\ subvols' = IF r.ran /\ r.status = 0
                       THEN subvols \cup {btrfs_subvolumes[loc.sv + 1]} ELSE subvols
         /\ IF r.ret < 0
            THEN MainExit(r.ret) /\ disk' = disk_free_info(disk) /\ loc' = loc
            ELSE /\ loc' = [loc EXCEPT !.sv = @ + 1]
                 /\ ret' = IF loc.sv + 1 < Len(btrfs_subvolumes) THEN r.ret ELSE 0
                 /\ pc' = IF loc.sv + 1 < Len(btrfs_subvolumes)
                          THEN "s2_subvolume" ELSE "main_after_step2"
                 /\ UNCHANGED <<exit_status, disk>>
    /\ UNCHANGED <<cmd, nsectors, table, desired, fs, boot>>
    /\ UNCHANGED <<ctab, flags, ctx, assigned, mounted, hist>>

\* main: step 2 returned 0; FLAG_USERFS_SKIP_OVERLAYS ends the run
MainAfterStep2 ==
    /\ pc = "main_after_step2"
    /\ IF "o" \in flags
       THEN MainExit(0) /\ disk' = disk_free_info(disk)
       ELSE /\ pc' = "s3_umount_volatile"
            /\ UNCHANGED <<exit_status, ret, disk>>
    /\ UNCHANGED <<ctab, flags, ctx, assigned, loc, ops, mounted, hist>>
    /\ DurableUnchanged

-----------------------------------------------------------------------------
(* step3_create_overlayfs *)

VOLATILE == "/var/volatile"

\* overlayfs_mount_points: mount point and the subvolume index of its upper
\* and work directories (BTRFS_SV_DATA_INDEX 0, BTRFS_SV_CONFIG_INDEX 1)
overlayfs_mount_points ==
    <<[mount_point |-> "/etc", btrfs_sv_index |-> 1],
      [mount_point |-> "/var", btrfs_sv_index |-> 0],
      [mount_point |-> "/home", btrfs_sv_index |-> 0]>>

\* umount2("/var/volatile", MNT_DETACH); a failure is only reported
S3UmountVolatile ==
    /\ pc = "s3_umount_volatile"
    /\ Log("umount_volatile")
    /\ \E ok \in BOOLEAN :
         mounted' = IF ok THEN mounted \ {VOLATILE} ELSE mounted
    /\ loc' = [loc EXCEPT !.i = 0]
    /\ pc' = "s3_overlay"
    /\ UNCHANGED <<ctab, flags, disk, ctx, assigned, ret, exit_status, hist>>
    /\ DurableUnchanged

\* the directories of mount point mp can be made when its subvolume exists
\* on the mounted userfs filesystem
SubvolumePresent(mp) ==
    /\ USERFS_MOUNT_POINT \in mounted
    /\ btrfs_subvolumes[mp.btrfs_sv_index + 1] \in subvols

\* one turn of the loop over overlayfs_mount_points: the two directories,
\* the umount2 of the mount point, the overlay mount
S3Overlay ==
    /\ pc = "s3_overlay"
    /\ LET mp == overlayfs_mount_points[loc.i + 1]
       IN  \E upper \in create_directory(SubvolumePresent(mp)) :
             IF upper # 0
             THEN /\ MainExit(upper)
                  /\ disk' = disk_free_info(disk)
                  /\ Log("overlay_mkdir")
                  /\ UNCHANGED <<mounted, loc>>
             ELSE \E work \in create_directory(SubvolumePresent(mp)) :
                    IF work # 0
                    THEN /\ MainExit(work)
                         /\ disk' = disk_free_info(disk)
                         /\ ops' = ops \o <<"overlay_mkdir", "overlay_mkdir">>
                         /\ UNCHANGED <<mounted, loc>>
                    ELSE \E ok \in BOOLEAN :
                           /\ ops' = ops \o <<"overlay_mkdir", "overlay_mkdir",
                                              "overlay_umount", "overlay_mount">>
                           /\ IF ~ok
                              THEN /\ MainExit(ERR)
                                   /\ disk' = disk_free_info(disk)
                                   /\ UNCHANGED <<mounted, loc>>
                              ELSE /\ mounted' = mounted \cup {mp.mount_point}
                                   /\ loc' = [loc EXCEPT !.i = @ + 1]
                                   /\ ret' = 0
                                   /\ pc' = IF loc.i + 1 < Len(overlayfs_mount_points)
                                            THEN "s3_overlay" ELSE "s3_mount_volatile"
                                   /\ UNCHANGED <<exit_status, disk>>
    /\ UNCHANGED <<ctab, flags, ctx, assigned, hist>>
    /\ DurableUnchanged

\* mount("tmpfs", "/var/volatile", "tmpfs", 0, "mode=0755"), return to main,
\* disk_free_info, return 0
S3MountVolatile ==
    /\ pc = "s3_mount_volatile"
    /\ Log("mount_volatile")
    /\ \E ok \in BOOLEAN :
         /\ mounted' = IF ok THEN mounted \cup {VOLATILE} ELSE mounted
         /\ MainExit(IF ok THEN 0 ELSE ERR)
    /\ disk' = disk_free_info(disk)
    /\ UNCHANGED <<ctab, flags, ctx, assigned, loc, hist>>
    /\ DurableUnchanged

-----------------------------------------------------------------------------
(* The next invocation: the device is booted again and the tool runs anew. *)
(* The partition table, the filesystem and its subvolumes are what is left *)
(* of the invocation before.                                               *)

NextBoot ==
    /\ pc = "done"
    /\ boot < MaxBoots
    /\ boot' = boot + 1
    /\ pc' = "main_parse"
    /\ flags' = {}
    /\ disk' = ZeroDisk
    /\ ctx' = "null"
    /\ assigned' = FALSE
    /\ ret' = ERR
    /\ loc' = NoLocals
    /\ ops' = <<>>
    /\ exit_status' = "running"
    /\ mounted' = {VOLATILE}
    /\ ctab' = EmptyTable
    /\ hist' = [NoHist EXCEPT !.table0 = table, !.prev_create = hist.create]
    /\ UNCHANGED <<cmd, nsectors, table, desired, fs, subvols>>

Next ==
    \/ ParseArgs
    \/ S1NewContext
    \/ S1AssignDevice
    \/ S1GetLabel
    \/ S1ReadPartitions
    \/ S1GetSize
    \/ DeleteUserfs
    \/ DeleteWrite
    \/ DeleteDeassign
    \/ CreateEntry
    \/ PrimAdd
    \/ PrimWrite
    \/ ExtDelete
    \/ ExtAddExt
    \/ ExtAddMoved
    \/ ExtAddNew
    \/ CreateWrite
    \/ S1AfterCreate
    \/ S1Deassign
    \/ S1Exit
    \/ MainAfterStep1
    \/ MainPartprobe
    \/ S2Probe
    \/ S2Mkfs
    \/ S2Mount
    \/ S2Subvolume
    \/ MainAfterStep2
    \/ S3UmountVolatile
    \/ S3Overlay
    \/ S3MountVolatile
    \/ NextBoot

Spec == Init /\ [][Next]_vars

-----------------------------------------------------------------------------
(* command_run(buf, buflen, program, argv) with a buffer: the parent, the  *)
(* child it forks and the pipe between them.  No caller of the program     *)
(* passes a buffer, so the function is followed on its own, for every      *)
(* buffer length and every amount of output of the child.                  *)

\* bytes the pipe holds before a write blocks
PipeCapacity == 2
\* the largest *buflen a caller passes
MaxBuflen == 3
\* the most bytes a program writes to its standard output
MaxOutput == 6

Min(a, b) == IF a <= b THEN a ELSE b

\* the write end of the pipe is open somewhere: the parent closes its copy
\* before it reads, the child holds its copy until it terminates
WriteEndOpen(c) == c.child \in {"forked", "running"}

ProcessUnchanged ==
    UNCHANGED <<nsectors, table, ctab, desired, fs, boot, pc, flags, disk, ctx,
                assigned, ret, loc, ops, exit_status, mounted, subvols, hist>>

\* a call command_run(buf, &buflen, program, argv) with buf and buflen set;
\* the program writes out bytes and exits
CaptureInit ==
    /\ table = EmptyTable
    /\ nsectors = FirstStart + USERFS_MIN_SIZE_S
    /\ desired = 0
    /\ fs = "unseen"
    /\ ctab = EmptyTable
    /\ boot = 1
    /\ subvols = {}
    /\ hist = NoHist
    /\ StartProcess
    /\ \E len \in 0 .. MaxBuflen, n \in 0 .. MaxOutput :
         cmd = [NoCommand EXCEPT !.at = "check_args", !.buflen = len, !.size = len,
                                 !.out = n]

\* the argument check: *buflen == 0 is EINVAL
CaptureCheckArgs ==
    /\ cmd.at = "check_args"
    /\ cmd' = IF cmd.buflen = 0
              THEN [cmd EXCEPT !.at = "returned", !.ret = ERR]
              ELSE [cmd EXCEPT !.at = "pipe"]
    /\ ProcessUnchanged

\* pipe(pipefd)
CapturePipe ==
    /\ cmd.at = "pipe"
    /\ \/ cmd' = [cmd EXCEPT !.at = "returned", !.ret = ERR]
       \/ cmd' = [cmd EXCEPT !.at = "fork", !.rd_open = TRUE]
    /\ ProcessUnchanged

\* fork(); in the parent, close(pipefd[1])
CaptureFork ==
    /\ cmd.at = "fork"
    /\ \/ cmd' = [cmd EXCEPT !.at = "cleanup"]
       \/ cmd' = [cmd EXCEPT !.at = "read", !.child = "forked"]
    /\ ProcessUnchanged

\* the child: close, dup2, close, execvp; _exit if dup2 or execvp fails
ChildExec ==
    /\ cmd.child = "forked"
    /\ \/ cmd' = [cmd EXCEPT !.child = "running"]
       \/ cmd' = [cmd EXCEPT !.child = "exited"]
    /\ ProcessUnchanged

\* the program writes to its standard output, the pipe: as many bytes as
\* fit; it blocks while the pipe is full and is killed by SIGPIPE once the
\* read end is closed
ChildWrite ==
    /\ cmd.child = "running"
    /\ cmd.written < cmd.out
    /\ IF ~cmd.rd_open
       THEN cmd' = [cmd EXCEPT !.child = "killed"]
       ELSE /\ cmd.pipe < PipeCapacity
            /\ \E k \in 1 .. Min(cmd.out - cmd.written, PipeCapacity - cmd.pipe) :
                 cmd' = [cmd EXCEPT !.written = @ + k, !.pipe = @ + k]
    /\ ProcessUnchanged

\* the program has written all it had to write and exits
ChildExit ==
    /\ cmd.child = "running"
    /\ cmd.written = cmd.out
    /\ cmd' = [cmd EXCEPT !.child = "exited"]
    /\ ProcessUnchanged

\* nread = read(pipefd[0], buf, *buflen), once: it fails; or it takes what
\* the pipe holds, at most *buflen bytes; or it returns 0 at end of file;
\* it blocks while the pipe is empty and the write end is open
CaptureRead ==
    /\ cmd.at = "read"
    /\ \/ cmd' = [cmd EXCEPT !.at = "cleanup"]
       \/ /\ cmd.pipe > 0
          /\ cmd' = [cmd EXCEPT !.buflen = Min(cmd.pipe, cmd.buflen),
                                !.pipe = @ - Min(cmd.pipe, cmd.buflen),
                                !.at = "waitpid"]
       \/ /\ cmd.pipe = 0
          /\ ~WriteEndOpen(cmd)
          /\ cmd' = [cmd EXCEPT !.buflen = 0, !.at = "waitpid"]
    /\ ProcessUnchanged

\* ret = waitpid(pid, NULL, 0): blocks until the child has terminated
CaptureWaitpid ==
    /\ cmd.at = "waitpid"
    /\ cmd.child \in {"exited", "killed"}
    /\ \E r \in Pids \cup {ERR} :
         cmd' = [cmd EXCEPT !.ret = r, !.child = "reaped", !.at = "cleanup"]
    /\ ProcessUnchanged

\* cleanup: close both ends, return ret
CaptureCleanup ==
    /\ cmd.at = "cleanup"
    /\ cmd' = [cmd EXCEPT !.rd_open = FALSE, !.at = "returned"]
    /\ ProcessUnchanged

CaptureNext ==
    \/ CaptureCheckArgs
    \/ CapturePipe
    \/ CaptureFork
    \/ ChildExec
    \/ ChildWrite
    \/ ChildExit
    \/ CaptureRead
    \/ CaptureWaitpid
    \/ CaptureCleanup

CaptureSpec == CaptureInit /\ [][CaptureNext]_vars

-----------------------------------------------------------------------------
(* Properties of step 1 and of main's use of it.  "At the return of the   *)
(* create" is pc = "s1_after_create": disk_dos_create_userfs_partition has *)
(* returned ret, hist.disk0 is the layout it was called with, hist.table0  *)
(* the table on the disk when the invocation began.                        *)

\* the calls of this invocation that change or commit the table
TableCalls == SelectSeq(ops, LAMBDA x : x \in {"add", "delete", "commit"})

\* the same with the deassign of the device
TableCallsAndDeassign ==
    SelectSeq(ops, LAMBDA x : x \in {"add", "delete", "commit", "deassign"})

IsPrefix(a, b) == Len(a) <= Len(b) /\ \A i \in 1..Len(a) : a[i] = b[i]

\* what main does after a step 1 that returned 0
LaterSteps ==
    {"partprobe", "probe", "mkfs", "mkdir", "mount", "subvolume", "umount_volatile",
     "overlay_mkdir", "overlay_umount", "overlay_mount", "mount_volatile"}

NoLaterStep == \A i \in 1..Len(ops) : ops[i] \notin LaterSteps

\* the requests the decision table of disk_dos_create_userfs_partition and
\* the ASSERTs of the two paths let through
Supported(d, n) ==
    \/ n \in 1..3 /\ d.type = "dos" /\ d.last_used_partno < 3
    \/ n = 5 /\ ExtendPreconditions(d)

\* C1: when the desired slot is a free primary slot (1..3), the free space
\* reaches the threshold and no library call fails, the create succeeds and
\* the partition is in the desired slot, starts one sector behind the end of
\* the last used partition, has the size of the free space before the call
\* and ends on the last sector of the disk.
C1_PrimaryInDesiredSlot ==
    (/\ pc = "s1_after_create"
     /\ desired \in 1..3
     /\ ~hist.disk0.partitions[desired].used
     /\ hist.disk0.free_sectors >= USERFS_MIN_SIZE_S
     /\ ~hist.codec_failed)
    => /\ ret = 0
       /\ table[desired].used
       /\ table[desired].start
            = hist.disk0.partitions[hist.disk0.last_used_partno].end + 1
       /\ table[desired].size = hist.disk0.free_sectors
       /\ EntryEnd(table[desired]) = nsectors - 1

\* the conversion of slot 3 has succeeded on a disk whose four primary slots
\* were used
ExtendedCreated ==
    /\ pc = "s1_after_create"
    /\ ret = 0
    /\ hist.path = "extended"
    /\ \A i \in 0..3 : hist.table0[i].used

\* the three equalities of the conversion that do not depend on where the
\* container starts
ChainOfLogicals ==
    /\ table[3].used /\ table[3].type = PARTTYPE_CODE_EXTENDED
    /\ table[4].used /\ table[4].start = table[3].start + DOS_LOGICAL_VOLUME_HEADER_SIZE
    /\ table[4].size = hist.table0[3].size /\ table[4].type = hist.table0[3].type
    /\ table[5].used
    /\ table[5].start = EntryEnd(table[4]) + DOS_LOGICAL_VOLUME_HEADER_SIZE + 1
    /\ EntryEnd(table[5]) = EntryEnd(table[3])

\* C2 as stated: after the conversion the container starts where the deleted
\* slot 3 started, the relocated partition 2048 sectors behind that start,
\* the new partition 2048 + 1 sectors behind the end of the relocated one,
\* and the new partition ends where the container ends.
C2_ExtendedStartsAtDeletedSlot ==
    ExtendedCreated => table[3].start = hist.table0[3].start /\ ChainOfLogicals

\* C2 amended: the container starts one sector behind the end of slot 2,
\* which is the start of the deleted slot 3 only when no gap lay between the
\* two; the other three equalities are as stated.
C2_ExtendedStartsBehindSlot2 ==
    ExtendedCreated
    => /\ table[3].start = EntryEnd(hist.table0[2]) + 1
       /\ EntryEnd(table[3]) = nsectors - 1
       /\ ChainOfLogicals
       /\ (hist.table0[3].start = EntryEnd(hist.table0[2]) + 1
             => table[3].start = hist.table0[3].start)

C2_Witness ==
    /\ ExtendedCreated
    /\ hist.table0[3].start > EntryEnd(hist.table0[2]) + 1
    /\ table[5].used

\* the slot the create has filled
CreatedSlot ==
    IF hist.path = "primary" THEN NewPrimaryIndex(hist.disk0) ELSE 5

\* C3: whenever the create returns Created, the new data partition has at
\* least the threshold of sectors, on the primary and on the extended path.
C3_CreatedReachesThreshold ==
    (pc = "s1_after_create" /\ ret = 0)
    => /\ table[CreatedSlot].used
       /\ table[CreatedSlot].size >= USERFS_MIN_SIZE_S

\* C4: for an unused desired slot, with one sector less than the threshold
\* free the create fails and no add, delete or commit has been issued; with
\* exactly the threshold free, a request the decision table supports
\* succeeds when no library call fails.
C4_ThresholdBoundary ==
    (pc = "s1_after_create" /\ ~hist.disk0.partitions[desired].used)
    => /\ hist.disk0.free_sectors = USERFS_MIN_SIZE_S - 1
            => /\ ret = ERR
               /\ TableCalls = <<>>
               /\ ctab = hist.table0
               /\ table = hist.table0
       /\ (/\ hist.disk0.free_sectors = USERFS_MIN_SIZE_S
           /\ Supported(hist.disk0, desired)
           /\ ~hist.codec_failed)
            => ret = 0 /\ table = ctab /\ table # hist.table0

C4_Witness ==
    /\ pc = "s1_after_create"
    /\ ~hist.disk0.partitions[desired].used
    /\ hist.disk0.free_sectors = USERFS_MIN_SIZE_S
    /\ ret = 0
    /\ table[desired].used

\* C5: in one invocation fdisk_write_disklabel is issued at most once.
C5_AtMostOneCommit ==
    Len(SelectSeq(ops, LAMBDA x : x = "commit")) <= 1

\* the create has left everything as it found it
NothingTouched ==
    /\ TableCalls = <<>>
    /\ disk = hist.disk0
    /\ ctab = hist.table0
    /\ table = hist.table0

\* C6 as stated: for desired slot 0, 1, 2, 3 or 5, a create for a slot that
\* is used returns 1, issues no add, delete or commit, and leaves the layout
\* model and the table as they were.
C6_UsedSlotAlreadyExists ==
    (/\ pc = "s1_after_create"
     /\ desired \in {0, 1, 2, 3, 5}
     /\ hist.disk0.partitions[desired].used)
    => ret = 1 /\ NothingTouched

\* C6 amended: that holds for the desired slots 1 to 5; for desired slot 0
\* the ASSERT on desired_partno returns -1, with the layout model and the
\* table as untouched.
C6_UsedSlotFromOne ==
    (pc = "s1_after_create" /\ hist.disk0.partitions[desired].used)
    => /\ ret = (IF desired >= 1 THEN 1 ELSE ERR)
       /\ NothingTouched

C6_Witness ==
    /\ pc = "s1_after_create"
    /\ desired = 5
    /\ hist.disk0.partitions[desired].used
    /\ ret = 1
    /\ hist.prev_create = "created"

\* C7: when the create of the invocation before reported Created, the create
\* of this invocation for the same slot reports AlreadyExists and the table
\* is the one the invocation found.
C7_SecondCreateAlreadyExists ==
    (pc = "s1_after_create" /\ hist.prev_create = "created")
    => ret = 1 /\ NothingTouched

\* C8: wherever step 1 is left after the device was assigned, the device
\* has been deassigned, or at the least the context that holds it released.
C8_DeassignedOnEveryPath ==
    (pc \in {"s1_return", "done"} /\ hist.was_assigned)
    => ~assigned \/ ctx = "freed"

\* C9: when step 1 ends in Error, main does nothing but leave: none of
\* partprobe, probe, mkfs, mount, subvolume or overlay is executed and the
\* exit status is not zero.
C9_ErrorStopsRun ==
    hist.s1 = "error"
    => /\ pc \in {"s1_return", "done"}
       /\ NoLaterStep
       /\ pc = "done" => exit_status # 0

C9_Witness ==
    /\ pc = "done"
    /\ hist.s1 = "error"
    /\ hist.loaded
    /\ hist.disk0.type = "none"
    /\ table[desired].used
    /\ "d" \notin flags
    /\ TableCallsAndDeassign = <<>>
    /\ ctx = "freed"

\* the calls a deletion issues, in their order
DeleteCalls == <<"delete", "commit", "deassign">>

DeleteOfUnusedSlot ==
    /\ "d" \in flags
    /\ hist.loaded
    /\ ~hist.table0[desired].used

\* C11: a delete asked for a slot that is not in use returns success and
\* issues neither a delete nor a commit, so the working table and the table
\* on the disk are unchanged.
C11_DeleteUnusedIsNoOp ==
    DeleteOfUnusedSlot
    => /\ TableCalls = <<>>
       /\ table = hist.table0
       /\ ctab = hist.table0
       /\ pc \notin {"del_write", "create_entry"}
       /\ pc = "del_deassign" => ret = 0

C11_Witness ==
    /\ DeleteOfUnusedSlot
    /\ pc = "del_deassign"
    /\ ret = 0
    /\ ops = <<"assign", "read">>

\* C12 as stated: the delete of a slot that was not in use reports a
\* failure.
C12_DeleteUnusedFails ==
    (DeleteOfUnusedSlot /\ pc = "done" /\ ~hist.codec_failed)
    => exit_status # 0

\* C12 amended: disk_delete_userfs_partition reports success for a slot that
\* is not in use, and the run exits with success when the deassign that
\* follows succeeds; fdisk_delete_partition itself is only ever called for a
\* slot that is in use.
C12_DeleteUnusedSucceeds ==
    /\ (DeleteOfUnusedSlot /\ pc = "done" /\ ~hist.codec_failed)
         => exit_status = 0 /\ TableCallsAndDeassign = <<"deassign">>
    /\ \A i \in 1..Len(ops) :
         ops[i] = "delete"
           => IF "d" \in flags THEN hist.table0[desired].used ELSE hist.table0[3].used

C12_Witness ==
    /\ DeleteOfUnusedSlot
    /\ pc = "done"
    /\ exit_status = 0
    /\ TableCallsAndDeassign = <<"deassign">>
    /\ boot = 2

-----------------------------------------------------------------------------
(* Properties of step 2 *)

\* mkfs.btrfs was started in this invocation
MkfsRun == \E i \in 1..Len(ops) : ops[i] = "mkfs"

\* what step 2 and step 3 do once the filesystem is made and its mount
\* point exists
AfterMkfs ==
    {"mount", "subvolume", "umount_volatile", "overlay_mkdir",
     "overlay_umount", "overlay_mount", "mount_volatile"}

\* C13, for mkfs.btrfs: when mkfs.btrfs was started and has left no Btrfs
\* filesystem on the partition (the fork failed, or the command exited with
\* a non-zero status), the run does not go on to the mount: it has ended
\* with a non-zero status and no mount, subvolume or overlay step was
\* executed.
C13_FailedCommandStopsRun ==
    (MkfsRun /\ fs # "btrfs" /\ pc # "s2_mkfs")
    => /\ pc = "done"
       /\ exit_status # 0
       /\ \A i \in 1..Len(ops) : ops[i] \notin AfterMkfs

\* C14: when the create reported AlreadyExists and the force flag is not
\* set, mkfs.btrfs is not run for a filesystem the probe recognises.
C14_ExistingFilesystemKept ==
    (/\ hist.create = "exists"
     /\ "f" \notin flags
     /\ loc.fs_type \in {"btrfs", "ext4", "swap"})
    => ~loc.do_format_btrfs /\ ~MkfsRun

\* the partition was created in this invocation and the probe has found a
\* Btrfs filesystem on it
CreatedWithBtrfs == hist.create = "created" /\ loc.fs_type = "btrfs"

\* step 2 has decided for mkfs.btrfs, and has started it once it is past
\* the decision
FormatDecided ==
    /\ loc.do_format_btrfs
    /\ pc # "s2_mkfs" => MkfsRun

-----------------------------------------------------------------------------
(* Properties of the layout model *)

\* the aggregates of layout d are what the reader computes from its slots
AggregatesDerived(d) ==
    LET next == d.partitions[d.last_used_partno].end + 1
    IN  /\ d.next_free_sector = U64(next)
        /\ d.free_sectors = d.total_sectors - next

\* C16: where the first read has completed and where the create has
\* returned Created or AlreadyExists, next_free_sector is the end of the
\* last used slot plus one and free_sectors is total_sectors minus
\* next_free_sector, both in sectors, as the reader leaves them.
C16_AggregatesDerived ==
    (pc = "s1_get_size" \/ (pc = "s1_after_create" /\ ret \in {0, 1}))
    => AggregatesDerived(disk)

\* the first read of a table none of whose slots is used has completed
EmptyTableRead ==
    /\ pc = "s1_get_size"
    /\ \A i \in Slots : ~ctab[i].used

\* C17 as stated: reading a table in which no slot is used yields
\* next_free_sector == 0 and free_sectors == total_sectors.
C17_EmptyDiskFreeFromZero ==
    EmptyTableRead
    => /\ disk.next_free_sector = U64(0)
       /\ disk.free_sectors = disk.total_sectors

\* C17 amended: it yields last_used_partno == 0, next_free_sector == 1 (the
\* zeroed end of slot 0 plus one) and free_sectors == total_sectors - 1; the
\* subtraction does not wrap.
C17_EmptyDiskFreeFromOne ==
    EmptyTableRead
    => /\ disk.last_used_partno = 0
       /\ disk.partitions[0].end = 0
       /\ disk.next_free_sector = U64(1)
       /\ disk.free_sectors = disk.total_sectors - 1
       /\ disk.free_sectors >= 0
       /\ disk.total_sectors = nsectors

C17_Witness ==
    /\ EmptyTableRead
    /\ disk.type = "dos"
    /\ disk.free_sectors = nsectors - 1

\* the slots of layout d are the slots a read of table tab finds
SameSlots(d, tab) ==
    \A i \in Slots :
       /\ d.partitions[i].used = fdisk_is_partition_used(tab, i)
       /\ d.partitions[i].used
            => /\ d.partitions[i].start = tab[i].start
               /\ d.partitions[i].end = EntryEnd(tab[i])
               /\ d.partitions[i].size = tab[i].size

\* the last call of the invocation was a commit and the table on the disk
\* is the working table
JustCommitted ==
    /\ Len(ops) > 0
    /\ ops[Len(ops)] = "commit"
    /\ table = ctab

-----------------------------------------------------------------------------
(* The scenario of the twenty-million-sector disk *)

\* the create has returned on the scenario disk, no library call having
\* failed
ScenarioCreateReturned ==
    /\ nsectors = ScenarioSectors
    /\ hist.table0 = ScenarioTable
    /\ pc = "s1_after_create"
    /\ ~hist.codec_failed

\* the primary partition of the scenario: start 8,000,001, end 19,999,999,
\* size 11,999,999
ScenarioPartition(e) ==
    /\ e.used
    /\ e.start = 8000001
    /\ EntryEnd(e) = 19999999
    /\ e.size = 11999999

\* C19 as stated: on that disk create(slot=2) yields a new primary
\* partition with start 8,000,001, end 19,999,999 and size 11,999,999.
C19_ScenarioCreateSlot2 ==
    (ScenarioCreateReturned /\ desired = 2)
    => /\ ret = 0
       /\ \E i \in 0..3 : ~hist.table0[i].used /\ ScenarioPartition(table[i])

\* C19 amended: create(slot=3), the free slot, yields that partition in
\* slot 3 and leaves the three others as they were; create(slot=2), a slot
\* that is in use on that disk, returns AlreadyExists and adds nothing.
C19_ScenarioCreateSlot3 ==
    ScenarioCreateReturned
    => /\ desired = 3
            => /\ ret = 0
               /\ ScenarioPartition(table[3])
               /\ table[3].type = USERFS_PART_CODE
               /\ \A i \in Slots \ {3} : table[i] = ScenarioTable[i]
       /\ desired = 2 => ret = 1 /\ NothingTouched

C19_Witness ==
    /\ ScenarioCreateReturned
    /\ desired = 3
    /\ ret = 0
    /\ ScenarioPartition(table[3])

\* C20: after a successful create for slot 5 on a disk whose four primary
\* slots were used, slot 3 holds an extended partition that ends on the last
\* sector of the disk, slot 4 a logical partition with the size and the type
\* code of the partition slot 3 held before, and slot 5 the new partition
\* of type 0x83 from behind the second header to the end of the container;
\* slots 0 to 2 are as before.
C20_ConversionResult ==
    ExtendedCreated
    => /\ table[3].used
       /\ IsExtended(table[3])
       /\ EntryEnd(table[3]) = nsectors - 1
       /\ table[4].used
       /\ table[4].size = hist.table0[3].size
       /\ table[4].type = hist.table0[3].type
       /\ table[4].start > table[3].start
       /\ table[5].used
       /\ table[5].type = PARTTYPE_CODE_LINUX
       /\ table[5].start = EntryEnd(table[4]) + DOS_LOGICAL_VOLUME_HEADER_SIZE + 1
       /\ EntryEnd(table[5]) = EntryEnd(table[3])
       /\ \A i \in 0..2 : table[i] = hist.table0[i]

C20_Witness ==
    /\ ExtendedCreated
    /\ hist.table0[3].start = EntryEnd(hist.table0[2]) + 1
    /\ table[4].used
    /\ table[4].size = hist.table0[3].size
    /\ table[5].used
    /\ table[5].type = PARTTYPE_CODE_LINUX

-----------------------------------------------------------------------------
(* C21 *)

\* the used entries of a table lie inside the disk and no two of them that
\* are not the extended container overlap
NonOverlapping(tab, total) ==
    /\ \A i \in Slots : tab[i].used => tab[i].start >= 1 /\ EntryEnd(tab[i]) <= total - 1
    /\ \A i, j \in Slots :
         (i # j /\ tab[i].used /\ tab[j].used /\ ~IsExtended(tab[i]) /\ ~IsExtended(tab[j]))
            => ~Overlap(tab[i], tab[j])

\* the create returned 0 after it went down the primary or the extended path
CreateSucceeded ==
    /\ pc = "s1_after_create"
    /\ ret = 0
    /\ hist.path \in {"primary", "extended"}

-----------------------------------------------------------------------------
(* C22 *)

\* the used primary slots of a layout model
UsedPrimaries(d) == {i \in 0 .. (MAX_DOS_PARTITIONS - 1) : d.partitions[i].used}

\* a request for a free slot that the decision table does not support: a
\* slot other than 0..3 and 5, or slot 5 with fewer than four used primary
\* slots or with an extended slot 3
Unsupported(d, n) ==
    /\ ~d.partitions[n].used
    /\ \/ n \notin {0, 1, 2, 3, 5}
       \/ /\ n = 5
          /\ \/ Cardinality(UsedPrimaries(d)) < MAX_DOS_PARTITIONS
             \/ d.partitions[3].type = PARTTYPE_CODE_EXTENDED

\* C22: a create request the decision table does not support (slot 4, or
\* slot 5 with fewer than four used primary slots or with slot 3 already
\* Extended) returns an error and the invocation issues no add, no delete
\* and no commit.
C22_UnsupportedTouchesNothing ==
    (pc = "s1_after_create" /\ Unsupported(hist.disk0, desired)) =>
        /\ ret = ERR
        /\ TableCalls = <<>>

-----------------------------------------------------------------------------
(* C23 *)

\* C23: an invocation with -h prints the usage text and performs no disk
\* operation: the device is not assigned, the table is neither changed nor
\* committed, nothing is formatted and nothing is mounted.
C23_HelpTouchesNothing ==
    hist.help =>
        /\ \A i \in 1 .. Len(ops) : ops[i] = "usage"
        /\ ~assigned
        /\ table = hist.table0
        /\ ctab = EmptyTable
        /\ mounted = {VOLATILE}

-----------------------------------------------------------------------------
(* C24 *)

\* the parent waits in waitpid for the child to terminate while the child
\* waits in write for room in the pipe that only the parent could make
BothWaiting ==
    /\ cmd.at = "waitpid"
    /\ cmd.child = "running"
    /\ cmd.written < cmd.out
    /\ cmd.pipe = PipeCapacity

\* C24: in capture mode command_run never leaves the parent and the child
\* waiting on each other, whatever the amount of output, and what it
\* captured is at most the buffer length it was given.
C24_CaptureNeverBlocks ==
    /\ ~BothWaiting
    /\ cmd.at \in {"waitpid", "cleanup", "returned"} => cmd.buflen <= cmd.size

-----------------------------------------------------------------------------
(* C25 *)

\* the call that follows every add or delete after which the invocation
\* issues another add, delete or commit is `next`
ChangeFollowedBy(next) ==
    \A i \in 1 .. Len(ops) :
       (/\ ops[i] \in {"add", "delete"}
        /\ \E j \in (i + 1) .. Len(ops) : ops[j] \in {"add", "delete", "commit"})
          => ops[i + 1] = next

\* C25 as stated: in every invocation each add or delete, on the create
\* paths and on the delete path, is followed by a fresh read of the table
\* into the layout model before the next add, delete or commit.
C25_RereadAfterEveryChange == ChangeFollowedBy("read")

\* C25: on the create paths each add or delete is followed by a fresh read
\* of the table into the layout model before the next add, delete or commit;
\* on the delete path the delete is followed directly by the commit.
C25_RereadOnCreatePaths ==
    IF "d" \in flags THEN ChangeFollowedBy("commit") ELSE ChangeFollowedBy("read")

\* a conversion went through its delete and its three adds and committed
C25_Witness ==
    /\ pc = "s1_after_create"
    /\ ret = 0
    /\ TableCalls = <<"delete", "add", "add", "add", "commit">>

-----------------------------------------------------------------------------
(* C26 *)

-----------------------------------------------------------------------------
(* C27 *)

\* C27: whenever a create ends in Error, whichever add, delete, re-read or
\* commit failed on the primary or on the extended path, the table on the
\* disk equals the table as it was when the invocation started.
C27_ErrorLeavesTable ==
    hist.create = "error" => table = hist.table0

-----------------------------------------------------------------------------
(* C28 *)

\* C28: whenever step 1 returns success after a create that ended in
\* Created or AlreadyExists, the layout-model entry of the configured userfs
\* slot is marked used and its partno is the configured number, so the
\* ASSERTs of main and of step 2 on that entry hold.
C28_SuccessSlotUsed ==
    (pc = "s1_return" /\ ret = 0 /\ hist.create \in {"created", "exists"}) =>
        /\ disk.partitions[desired].used
        /\ disk.partitions[desired].partno = desired

-----------------------------------------------------------------------------
(* C29 *)

\* the calls of step 2, in the order they were issued
Step2Calls == SelectSeq(ops, LAMBDA x : x \in {"probe", "mkfs", "mount", "subvolume"})

Step2Rank(x) ==
    IF x = "probe" THEN 1 ELSE IF x = "mkfs" THEN 2 ELSE IF x = "mount" THEN 3 ELSE 4

\* how often call x was issued in this invocation
CallCount(x) == Len(SelectSeq(ops, LAMBDA y : y = x))

-----------------------------------------------------------------------------
(* C30 *)

\* overlay setup was entered in this invocation
OverlaySetupEntered == CallCount("umount_volatile") > 0

\* C30: whenever overlay setup is entered, /var/volatile is unmounted before
\* the first overlay mount and, on every path out of overlay setup, success
\* or a failed directory creation or overlay mount part-way, the mount of
\* tmpfs on /var/volatile is the call that follows the last overlay
\* operation.
C30_VolatileRemounted ==
    /\ \A i \in 1 .. Len(ops) :
         ops[i] \in {"overlay_mkdir", "overlay_umount", "overlay_mount"} =>
            \E j \in 1 .. (i - 1) : ops[j] = "umount_volatile"
    /\ (pc = "done" /\ OverlaySetupEntered) => ops[Len(ops)] = "mount_volatile"

====
